---- MODULE Spec2Model ----
(***************************************************************************)
(* Model of fetch_likers.py: the resumable pagination engine of            *)
(* TwitterLikesFetcher.  The SQLite tables `likers` and `state` are sets   *)
(* of rows, the main flow of run()/fetch_page()/pace_requests() is a       *)
(* program counter with its local variables, and the process can be        *)
(* signalled (handle_stop), killed (Crash) and started again (Restart).    *)
(*                                                                         *)
(* Time.  The code only ever uses differences `reset - int(time.time())`,  *)
(* so the model keeps the x-rate-limit-reset header as an offset from the  *)
(* current instant (headers.reset_in) and shifts every stored offset when  *)
(* a sleep lets time pass (Elapse).  Sleeps last exactly their nominal     *)
(* duration, which is the shortest they can last.                          *)
(***************************************************************************)
EXTENDS Integers, Sequences, FiniteSets, TLC

\* ------------------------------------------------------------------ bounds
\* Number of processes started one after the other on the same database.
MaxRuns == 2
\* Largest offset (seconds from now) of an x-rate-limit-reset header.
MaxReset == 4
\* Longest list of users handed to insert_users in SpecInsert.
MaxLen == 2
MaxPages == 5

\* ------------------------------------------------------- program constants
\* for attempt in range(7)
MaxAttempts == 7
\* wait_time = max(0, reset - current_time) + 2 ; delay = max(5, reset - current_time + 2)
Buffer == 2
\* delay = max(5, ...) and test_delay = 5
MinDelay == 5
\* min(300, 2 ** attempt)
BackoffCap == 300
\* max_pages = 3 if QUICK_TEST else 999999
QuickMaxPages == 3
ProdMaxPages == 999999
\* time.sleep(1) in test mode, time.sleep(2) in production
QuickPoliteness == 1
ProdPoliteness == 2

\* Python's None, and a request that carries no pagination_token parameter.
None == "None"
Absent == "absent"
\* No request issued yet in this run.
NoReq == "noreq"
\* Offsets at or below Low behave alike in max(0, r) and max(5, r + 2).
Low == 0 - 1

TWEET_ID == "42"
OTHER_TWEET == "7"

Max(a, b) == IF a >= b THEN a ELSE b
Min(a, b) == IF a <= b THEN a ELSE b

RECURSIVE Pow2(_)
Pow2(n) == IF n = 0 THEN 1 ELSE 2 * Pow2(n - 1)

\* bool(x) of an optional string
Truthy(s) == s # None /\ s # ""

\* ------------------------------------------------------------ record store
User(id, username, verified) == [id |-> id, username |-> username, verified |-> verified]

\* profile_url = f"https://x.com/{username}" if username else ""
profile_url(user) == IF Truthy(user.username) THEN "https://x.com/" \o user.username ELSE ""

\* int(bool(user.get('verified')))
verified_int(user) == IF user.verified = "true" THEN 1 ELSE 0

\* The tuple of values bound to the INSERT statement.
LikerRow(tweet_id, user) ==
    [tweet_id |-> tweet_id, user_id |-> user.id, username |-> user.username,
     verified |-> verified_int(user), profile_url |-> profile_url(user)]

\* INSERT OR REPLACE: the bug of overwriting an existing row.
InsertOrReplace(tbl, row) ==
    IF row.user_id = 0 THEN tbl
    ELSE {r \in tbl : ~(r.tweet_id = row.tweet_id /\ r.user_id = row.user_id)} \cup {row}

\* INSERT OR IGNORE INTO likers: the row is skipped when it violates
\* PRIMARY KEY(tweet_id, user_id) or user_id NOT NULL (user id 0 stands for NULL).
InsertOrIgnore(tbl, row) ==
    IF row.user_id = 0 THEN tbl
    ELSE IF \E r \in tbl : r.tweet_id = row.tweet_id /\ r.user_id = row.user_id THEN tbl
    ELSE tbl \cup {row}

\* The bug of a loop that returns after its first user.
insert_users_first_only(tbl, tweet_id, users) ==
    IF users = <<>> THEN tbl ELSE InsertOrIgnore(tbl, LikerRow(tweet_id, Head(users)))

RECURSIVE insert_users(_, _, _)
\* One transaction: every user of the list, in order.
insert_users(tbl, tweet_id, users) ==
    IF users = <<>> THEN tbl
    ELSE insert_users(InsertOrIgnore(tbl, LikerRow(tweet_id, Head(users))), tweet_id, Tail(users))

\* SELECT COUNT(*) FROM likers WHERE tweet_id=?
count_rows(tbl, tweet_id) == Cardinality({r \in tbl : r.tweet_id = tweet_id})

RECURSIVE OrderByUserIdDesc(_)
\* The bug of ORDER BY user_id DESC.
OrderByUserIdDesc(rows) ==
    IF rows = {} THEN <<>>
    ELSE LET m == CHOOSE r \in rows : \A q \in rows : r.user_id >= q.user_id
         IN <<m>> \o OrderByUserIdDesc(rows \ {m})

RECURSIVE OrderByUserId(_)
\* ORDER BY user_id
OrderByUserId(rows) ==
    IF rows = {} THEN <<>>
    ELSE LET m == CHOOSE r \in rows : \A q \in rows : r.user_id <= q.user_id
         IN <<m>> \o OrderByUserId(rows \ {m})

\* SELECT ... FROM likers WHERE tweet_id=? ORDER BY user_id
select_likers(tbl, tweet_id) == OrderByUserId({r \in tbl : r.tweet_id = tweet_id})

\* --------------------------------------------------------- checkpoint store
DefaultState(tweet_id) ==
    [tweet_id |-> tweet_id, next_token |-> None, done |-> FALSE,
     total_users_found |-> 0, last_request_time |-> 0, last_export_time |-> 0]

HasState(tbl, tweet_id) == \E r \in tbl : r.tweet_id = tweet_id
StateRow(tbl, tweet_id) == CHOOSE r \in tbl : r.tweet_id = tweet_id

\* INSERT OR IGNORE INTO state ... VALUES(?,NULL,0,0,0)
init_state(tbl, tweet_id) ==
    IF HasState(tbl, tweet_id) THEN tbl ELSE tbl \cup {DefaultState(tweet_id)}

\* The bug of an UPDATE that leaves total_users_found out.
save_state_no_count(tbl, tweet_id, token, isdone, total, t) ==
    {IF r.tweet_id = tweet_id
     THEN [r EXCEPT !.next_token = token, !.done = isdone, !.last_request_time = t]
     ELSE r : r \in tbl}

\* UPDATE state SET next_token=?, done=?, total_users_found=?, last_request_time=? WHERE tweet_id=?
save_state(tbl, tweet_id, token, isdone, total, t) ==
    {IF r.tweet_id = tweet_id
     THEN [r EXCEPT !.next_token = token, !.done = isdone,
                    !.total_users_found = total, !.last_request_time = t]
     ELSE r : r \in tbl}

\* UPDATE state SET last_export_time=? WHERE tweet_id=?
update_export_time(tbl, tweet_id, t) ==
    {IF r.tweet_id = tweet_id THEN [r EXCEPT !.last_export_time = t] ELSE r : r \in tbl}

\* ------------------------------------------------------------------ remote
Page(users, token) == [data |-> users, next_token |-> token]
NoPage == Page(<<>>, None)

\* The listing of the specification's end-to-end scenario.
RemoteA ==
    [t \in {None, "X"} |->
        IF t = None THEN Page(<<User(1, "u1", "true"), User(2, "u2", "absent")>>, "X")
        ELSE Page(<<User(3, "u3", "false")>>, None)]

\* Four pages: an empty page, ids repeated within and across pages with
\* other field values, and a last page whose next_token is the empty string.
RemoteB ==
    [t \in {None, "X", "Y", "Z"} |->
        CASE t = None -> Page(<<User(1, "u1", "true"), User(2, "u2", "absent")>>, "X")
          [] t = "X" -> Page(<<>>, "Y")
          [] t = "Y" -> Page(<<User(2, "u9", "true"), User(3, "", "false"), User(3, "u3", "false")>>, "Z")
          [] OTHER -> Page(<<User(4, None, "absent")>>, "")]

\* A target nobody liked: one page without records and without next_token.
RemoteC == [t \in {None} |-> Page(<<>>, None)]

\* A listing that never ends: after the first page the remote keeps serving
\* an empty page with the same next_token.
RemoteL ==
    [t \in {None, "X"} |->
        IF t = None THEN Page(<<User(1, "u1", "true")>>, "X") ELSE Page(<<>>, "X")]

Remote(name) ==
    IF name = "A" THEN RemoteA
    ELSE IF name = "B" THEN RemoteB
    ELSE IF name = "C" THEN RemoteC
    ELSE RemoteL
Remotes == {"A", "B", "C"}

\* The page the remote serves for a request.
Serve(name, param) == Remote(name)[IF param = Absent THEN None ELSE param]

Statuses == {200, 429, 500, 404}
Remainings == {0, 1, 3, 9}
EXC == 0 - 1

\* x-rate-limit-reset relative to now: in the past, now, soon, and far enough
\* for reset + 2 to exceed the 5-second floor of the 429 countdown.
ResetOffsets == {Low, 0, 1, MaxReset}

NoHeaders == [remaining |-> 1, has_reset |-> FALSE, reset_in |-> Low]
HeaderSet ==
    {[remaining |-> rem, has_reset |-> FALSE, reset_in |-> Low] : rem \in Remainings}
    \cup [remaining : Remainings, has_reset : {TRUE}, reset_in : ResetOffsets]

\* ------------------------------------------------------------------- state
VARIABLES
    likers,         \* table likers: set of rows
    state,          \* table state: set of rows, at most one per tweet_id
    csv,            \* rows of the snapshot file last written (<<>> when none)
    remote,         \* which listing the remote serves
    QUICK_TEST,     \* os.environ.get("QUICK_TEST") == "true"
    EXPORT_MODE,    \* "final", "periodic" or another value
    stop_flag,      \* the global stop flag
    run_no,         \* number of the running process; also the coarse wall clock
    pc,             \* position of the main flow
    next_token, done, total_users, page_count,  \* locals of run()
    params_token,   \* params['pagination_token'] of fetch_page, or Absent
    attempt,        \* loop variable of fetch_page
    status,         \* status of the last response of this call (0: none, EXC: exception)
    headers,        \* rate-limit headers of that response
    cd,             \* seconds left in the running countdown
    data,           \* page returned by fetch_page
    \* observers (they record, and decide nothing)
    likers_before,  \* likers when the last insert_users began
    start_state,    \* table state when run() began
    first_req,      \* pagination token of the first request of this run, or NoReq
    call_reqs,      \* session.get calls of the current fetch_page call
    not_before,     \* seconds still to elapse until reset + 2 of the last response
    stop_where,     \* where the main flow was when the stop flag was set
    stop_saves,     \* save_state calls since the stop flag was set
    stop_sleeps,    \* countdown sleeps begun since the stop flag was set
    \* the steps inside insert_users and export_csv_with_connection
    txn,            \* open transaction of self.conn: rows not yet committed, users still to insert
    open_files      \* snapshot files open for writing: who writes, file name, rows of its cursor

db_vars == <<likers, state, csv>>
env_vars == <<remote, QUICK_TEST, EXPORT_MODE>>
io_vars == <<txn, open_files>>
run_locals == <<next_token, done, total_users, page_count>>
fetch_locals == <<params_token, attempt, status, headers, cd>>
observers == <<likers_before, start_state, first_req, call_reqs, not_before,
               stop_where, stop_saves, stop_sleeps>>
vars == <<likers, state, csv, remote, QUICK_TEST, EXPORT_MODE, stop_flag, run_no, pc,
          next_token, done, total_users, page_count, params_token, attempt, status,
          headers, cd, data, likers_before, start_state, first_req, call_reqs,
          not_before, stop_where, stop_saves, stop_sleeps, txn, open_files>>

\* No transaction is open on self.conn.
NoTxn == [rows |-> {}, todo |-> <<>>]

\* int(time.time()) as stored in the state table
time_time == run_no

CountdownPcs == {"pace_check", "pace_sleep", "rl_check", "rl_sleep"}
FetchPcs == {"request", "pace", "dispatch", "backoff"} \cup CountdownPcs
RunningPcs == {"start", "already_done", "loop", "process", "save", "polite", "failed", "final"}
                  \cup FetchPcs

\* A fresh process: module globals and locals before run().
FreshProcess ==
    /\ stop_flag' = FALSE
    /\ pc' = "start"
    /\ next_token' = None /\ done' = FALSE /\ total_users' = 0 /\ page_count' = 0
    /\ params_token' = Absent /\ attempt' = 0 /\ status' = 0 /\ headers' = NoHeaders
    /\ cd' = 0 /\ data' = NoPage
    /\ first_req' = NoReq /\ call_reqs' = 0 /\ not_before' = 0
    /\ stop_where' = "none" /\ stop_saves' = 0 /\ stop_sleeps' = 0

\* init_database on a new file: both tables exist and are empty.
InitIn(modes, listings) ==
    /\ likers = {} /\ state = {} /\ csv = <<>>
    /\ remote \in listings
    /\ QUICK_TEST \in BOOLEAN
    /\ EXPORT_MODE \in modes
    /\ stop_flag = FALSE
    /\ run_no = 1
    /\ pc = "start"
    /\ next_token = None /\ done = FALSE /\ total_users = 0 /\ page_count = 0
    /\ params_token = Absent /\ attempt = 0 /\ status = 0 /\ headers = NoHeaders
    /\ cd = 0 /\ data = NoPage
    /\ likers_before = {} /\ start_state = {}
    /\ first_req = NoReq /\ call_reqs = 0 /\ not_before = 0
    /\ stop_where = "none" /\ stop_saves = 0 /\ stop_sleeps = 0
    /\ txn = NoTxn /\ open_files = {}

\* EXPORT_MODE is "final" (the default) or any other word but "periodic".
Init == InitIn({"final", "off"}, Remotes)

\* EXPORT_MODE=periodic: __init__ starts the export thread.
InitPeriodic == InitIn({"periodic"}, Remotes)

\* d seconds pass: every stored offset moves d seconds closer.
Elapse(d) ==
    /\ not_before' = Max(0, not_before - d)
    /\ headers' = [headers EXCEPT !.reset_in = Max(Low, headers.reset_in - d)]

\* The bug of a restart that forgets the stored cursor.
get_state_no_cursor(tbl, tweet_id) ==
    IF HasState(tbl, tweet_id)
    THEN LET row == StateRow(tbl, tweet_id)
         IN [next_token |-> None, done |-> row.done, total |-> row.total_users_found]
    ELSE [next_token |-> None, done |-> FALSE, total |-> 0]

\* The bug of a restart that does not read the done column.
get_state_never_done(tbl, tweet_id) ==
    IF HasState(tbl, tweet_id)
    THEN LET row == StateRow(tbl, tweet_id)
         IN [next_token |-> row.next_token, done |-> FALSE, total |-> row.total_users_found]
    ELSE [next_token |-> None, done |-> FALSE, total |-> 0]

\* What get_state returns: (next_token, done, total_users_found).
get_state(tbl, tweet_id) ==
    IF HasState(tbl, tweet_id)
    THEN LET row == StateRow(tbl, tweet_id)
         IN [next_token |-> row.next_token, done |-> row.done, total |-> row.total_users_found]
    ELSE [next_token |-> None, done |-> FALSE, total |-> 0]

\* The bug of stamping the export time on whatever connection.
marks_exported_always(is_primary) == TRUE

\* export_csv_with_connection, line 375: if conn == self.conn
marks_exported(is_primary) == is_primary

\* export_csv_with_connection: write the file, then update_export_time when
\* the connection is the primary one.
export_csv_with_connection(is_primary) ==
    /\ csv' = select_likers(likers, TWEET_ID)
    /\ state' = IF marks_exported(is_primary)
                THEN update_export_time(state, TWEET_ID, time_time) ELSE state
    /\ likers' = likers

\* export_csv: the export on self.conn
export_csv == export_csv_with_connection(TRUE)

\* run(), line 412: load the checkpoint, creating the default row.
run_get_state ==
    /\ pc = "start"
    /\ LET got == get_state(state, TWEET_ID)
       IN /\ next_token' = got.next_token
          /\ done' = got.done
          /\ total_users' = got.total
          /\ pc' = IF got.done THEN "already_done" ELSE "loop"
    /\ state' = init_state(state, TWEET_ID)
    /\ start_state' = state
    /\ page_count' = 0
    /\ UNCHANGED <<likers, csv, env_vars, io_vars, stop_flag, run_no, fetch_locals, data,
                   likers_before, first_req, call_reqs, not_before,
                   stop_where, stop_saves, stop_sleeps>>

\* run(), lines 414-418: the target is complete; export and return.
run_already_done ==
    /\ pc = "already_done"
    /\ export_csv
    /\ pc' = "exited"
    /\ UNCHANGED <<env_vars, io_vars, stop_flag, run_no, run_locals, fetch_locals, data, observers>>

max_pages == IF QUICK_TEST THEN QuickMaxPages ELSE ProdMaxPages

\* fetch_page, lines 264-265: if next_token: params['pagination_token'] = next_token
ParamToken(token) == IF Truthy(token) THEN token ELSE Absent

\* The bug of a loop test that leaves the stop flag out.
loop_ignores_stop == ~done /\ page_count < max_pages

\* run(), line 423: while not done and not stop_flag and page_count < max_pages
loop_continues == ~done /\ ~stop_flag /\ page_count < max_pages

\* run(), line 423, and the entry of fetch_page.
run_loop ==
    /\ pc = "loop"
    /\ IF loop_continues
       THEN /\ page_count' = page_count + 1
            /\ params_token' = ParamToken(next_token)
            /\ attempt' = 0
            /\ status' = 0
            /\ call_reqs' = 0
            /\ pc' = "request"
       ELSE /\ pc' = "final"
            /\ UNCHANGED <<page_count, params_token, attempt, status, call_reqs>>
    /\ UNCHANGED <<db_vars, env_vars, io_vars, stop_flag, run_no, next_token, done, total_users,
                   headers, cd, data, likers_before, start_state, first_req,
                   not_before, stop_where, stop_saves, stop_sleeps>>

\* The bug of a loop bound that is one too large.
AttemptsLeftOffByOne(a) == a <= MaxAttempts

\* The attempts of one fetch_page call: range(7).
AttemptsLeft(a) == a < MaxAttempts

\* fetch_page, lines 343-344: the attempts are used up.
fetch_page_exhausted ==
    /\ pc = "request"
    /\ ~AttemptsLeft(attempt)
    /\ pc' = "failed"
    /\ UNCHANGED <<db_vars, env_vars, io_vars, stop_flag, run_no, run_locals, fetch_locals, data,
                   observers>>

\* The time until reset + buffer that a response with remaining = 0 imposes.
Deadline(h) == IF h.remaining = 0 /\ h.has_reset THEN Max(0, h.reset_in + Buffer) ELSE 0

\* fetch_page, line 272: session.get, answered by a response or an exception.
fetch_page_request ==
    /\ pc = "request"
    /\ AttemptsLeft(attempt)
    /\ call_reqs' = call_reqs + 1
    /\ first_req' = IF first_req = NoReq THEN params_token ELSE first_req
    /\ \/ /\ status' = EXC
          /\ headers' = NoHeaders
          /\ not_before' = 0
          /\ data' = NoPage
          /\ pc' = "backoff"
       \/ \E st \in Statuses, h \in HeaderSet :
             /\ status' = st
             /\ headers' = h
             /\ not_before' = Deadline(h)
             /\ data' = IF st = 200 THEN Serve(remote, params_token) ELSE NoPage
             /\ pc' = "pace"
    /\ UNCHANGED <<db_vars, env_vars, io_vars, stop_flag, run_no, run_locals, params_token, attempt,
                   cd, likers_before, start_state, stop_where, stop_saves, stop_sleeps>>

\* pace_requests, line 226: wait_time = max(0, reset - current_time) + 2
wait_time(h) == Max(0, h.reset_in) + Buffer

\* pace_requests, lines 210-239, up to the start of its countdown.
pace_requests ==
    /\ pc = "pace"
    /\ IF QUICK_TEST
       THEN /\ pc' = "dispatch"
            /\ UNCHANGED <<cd, headers, not_before>>
       ELSE IF headers.remaining <= 1 /\ headers.has_reset
       THEN /\ cd' = wait_time(headers)
            /\ pc' = "pace_check"
            /\ UNCHANGED <<headers, not_before>>
       ELSE IF headers.remaining <= 5
       THEN /\ \E delay \in 1..3 : Elapse(delay)
            /\ pc' = "dispatch"
            /\ cd' = cd
       ELSE /\ pc' = "dispatch"
            /\ UNCHANGED <<cd, headers, not_before>>
    /\ UNCHANGED <<db_vars, env_vars, io_vars, stop_flag, run_no, run_locals, params_token, attempt,
                   status, data, likers_before, start_state, first_req, call_reqs,
                   stop_where, stop_saves, stop_sleeps>>

\* The bug of a countdown that never looks at the stop flag.
CountdownIgnoresStop == FALSE

\* The stop test at the head of a countdown iteration.
CountdownSeesStop == stop_flag

\* pace_requests, lines 228-231: loop test and stop test of the countdown.
pace_wait_check ==
    /\ pc = "pace_check"
    /\ pc' = IF cd = 0 \/ CountdownSeesStop THEN "dispatch" ELSE "pace_sleep"
    /\ UNCHANGED <<db_vars, env_vars, io_vars, stop_flag, run_no, run_locals, fetch_locals, data,
                   observers>>

\* pace_requests, line 234: time.sleep(1)
pace_wait_sleep ==
    /\ pc = "pace_sleep"
    /\ Elapse(1)
    /\ cd' = cd - 1
    /\ stop_sleeps' = IF stop_flag THEN stop_sleeps + 1 ELSE stop_sleeps
    /\ pc' = "pace_check"
    /\ UNCHANGED <<db_vars, env_vars, io_vars, stop_flag, run_no, run_locals, params_token, attempt,
                   status, data, likers_before, start_state, first_req, call_reqs,
                   stop_where, stop_saves>>

\* The bug of retrying every error status.
status_class_retry_all(st) ==
    IF st = 200 THEN "ok"
    ELSE IF st = 429 THEN "rate_limited"
    ELSE "server_error"

\* fetch_page, lines 279-336: the branch taken for a status code.
status_class(st) ==
    IF st = 200 THEN "ok"
    ELSE IF st = 429 THEN "rate_limited"
    ELSE IF 500 <= st /\ st < 600 THEN "server_error"
    ELSE "fatal"

\* The bug of a 429 countdown without the 2-second buffer.
rate_limit_delay_no_buffer(h) == IF QUICK_TEST THEN MinDelay ELSE Max(MinDelay, h.reset_in)

\* fetch_page, lines 298 and 303-306: the length of the 429 countdown.
rate_limit_delay(h) == IF QUICK_TEST THEN MinDelay ELSE Max(MinDelay, h.reset_in + Buffer)

\* fetch_page, lines 279-336, after pace_requests has returned.
fetch_page_dispatch ==
    /\ pc = "dispatch"
    /\ LET cls == status_class(status)
       IN /\ pc' = CASE cls = "ok" -> "process"
                     [] cls = "rate_limited" -> IF headers.has_reset THEN "rl_check" ELSE "backoff"
                     [] cls = "server_error" -> "backoff"
                     [] OTHER -> "failed"
          /\ cd' = IF cls = "rate_limited" /\ headers.has_reset
                   THEN rate_limit_delay(headers) ELSE 0
    /\ headers' = NoHeaders
    /\ UNCHANGED <<db_vars, env_vars, io_vars, stop_flag, run_no, run_locals, params_token, attempt,
                   status, data, observers>>

\* fetch_page, lines 309-321: loop test and stop tests of the 429 countdown.
rate_limit_check ==
    /\ pc = "rl_check"
    /\ IF CountdownSeesStop
       THEN pc' = "failed" /\ attempt' = attempt
       ELSE IF cd > 0
       THEN pc' = "rl_sleep" /\ attempt' = attempt
       ELSE pc' = "request" /\ attempt' = attempt + 1
    /\ UNCHANGED <<db_vars, env_vars, io_vars, stop_flag, run_no, run_locals, params_token, status,
                   headers, cd, data, observers>>

\* fetch_page, line 315: time.sleep(1)
rate_limit_sleep ==
    /\ pc = "rl_sleep"
    /\ Elapse(1)
    /\ cd' = cd - 1
    /\ stop_sleeps' = IF stop_flag THEN stop_sleeps + 1 ELSE stop_sleeps
    /\ pc' = "rl_check"
    /\ UNCHANGED <<db_vars, env_vars, io_vars, stop_flag, run_no, run_locals, params_token, attempt,
                   status, data, likers_before, start_state, first_req, call_reqs,
                   stop_where, stop_saves>>

\* backoff_sleep: min(300, 2 ** attempt) + random.uniform(0, 1.2), then `continue`.
backoff_sleep ==
    /\ pc = "backoff"
    /\ \E jitter \in 0..1 : Elapse(Min(BackoffCap, Pow2(attempt)) + jitter)
    /\ attempt' = attempt + 1
    /\ pc' = "request"
    /\ UNCHANGED <<db_vars, env_vars, io_vars, stop_flag, run_no, run_locals, params_token, status,
                   cd, data, likers_before, start_state, first_req, call_reqs,
                   stop_where, stop_saves, stop_sleeps>>

\* The bug of taking only a missing next_token, not an empty one, as the end.
is_done_none_only(token) == token = None

\* run(), line 450: done = not bool(next_token)
is_done(token) == ~Truthy(token)

\* The bug of assigning the page's length instead of adding it.
count_after_assign(total, users) == Len(users)

\* run(), line 442: total_users += len(users)
count_after(total, users) == total + Len(users)

\* run(), lines 439-450: ingest the page, then compute the new cursor.
run_process_page ==
    /\ pc = "process"
    /\ likers_before' = likers
    /\ IF data.data # <<>>
       THEN /\ likers' = insert_users(likers, TWEET_ID, data.data)
            /\ total_users' = count_after(total_users, data.data)
       ELSE UNCHANGED <<likers, total_users>>
    /\ next_token' = data.next_token
    /\ done' = is_done(data.next_token)
    /\ pc' = "save"
    /\ UNCHANGED <<state, csv, env_vars, io_vars, stop_flag, run_no, page_count, fetch_locals, data,
                   start_state, first_req, call_reqs, not_before,
                   stop_where, stop_saves, stop_sleeps>>

\* run(), line 453: save_state after a page.
run_save_state ==
    /\ pc = "save"
    /\ state' = save_state(state, TWEET_ID, next_token, done, total_users, time_time)
    /\ stop_saves' = IF stop_flag THEN stop_saves + 1 ELSE stop_saves
    /\ pc' = "polite"
    /\ UNCHANGED <<likers, csv, env_vars, io_vars, stop_flag, run_no, run_locals, fetch_locals, data,
                   likers_before, start_state, first_req, call_reqs, not_before,
                   stop_where, stop_sleeps>>

\* run(), lines 461-465: the delay between two pages.
run_polite ==
    /\ pc = "polite"
    /\ IF ~done /\ ~stop_flag
       THEN Elapse(IF QUICK_TEST THEN QuickPoliteness ELSE ProdPoliteness)
       ELSE UNCHANGED <<headers, not_before>>
    /\ pc' = "loop"
    /\ UNCHANGED <<db_vars, env_vars, io_vars, stop_flag, run_no, run_locals, params_token, attempt,
                   status, cd, data, likers_before, start_state, first_req, call_reqs,
                   stop_where, stop_saves, stop_sleeps>>

\* The bug of a failure path that stores no cursor.
failure_checkpoint_no_cursor(tbl) == save_state(tbl, TWEET_ID, None, FALSE, total_users, time_time)

\* The checkpoint written when fetch_page returned None.
failure_checkpoint(tbl) == save_state(tbl, TWEET_ID, next_token, FALSE, total_users, time_time)

\* run(), lines 432-436: fetch_page returned None.
run_failed ==
    /\ pc = "failed"
    /\ state' = failure_checkpoint(state)
    /\ stop_saves' = IF stop_flag THEN stop_saves + 1 ELSE stop_saves
    /\ pc' = "final"
    /\ UNCHANGED <<likers, csv, env_vars, io_vars, stop_flag, run_no, run_locals, fetch_locals, data,
                   likers_before, start_state, first_req, call_reqs, not_before,
                   stop_where, stop_sleeps>>

\* run(), lines 475-486: the export after the loop.
run_final_export ==
    /\ pc = "final"
    /\ IF EXPORT_MODE \in {"final", "periodic"} /\ count_rows(likers, TWEET_ID) > 0
       THEN export_csv
       ELSE UNCHANGED db_vars
    /\ pc' = "exited"
    /\ UNCHANGED <<env_vars, io_vars, stop_flag, run_no, run_locals, fetch_locals, data, observers>>

\* handle_stop: SIGTERM or SIGINT delivered to the running process.
handle_stop ==
    /\ pc \in RunningPcs
    /\ ~stop_flag
    /\ stop_flag' = TRUE
    /\ stop_where' = IF pc \in CountdownPcs THEN "countdown" ELSE "other"
    /\ UNCHANGED <<db_vars, env_vars, io_vars, run_no, pc, run_locals, fetch_locals, data,
                   likers_before, start_state, first_req, call_reqs, not_before,
                   stop_saves, stop_sleeps>>

\* The process is killed: its memory is lost, the committed tables stay.
Crash ==
    /\ pc \in RunningPcs
    /\ stop_flag' = FALSE
    /\ pc' = "crashed"
    /\ next_token' = None /\ done' = FALSE /\ total_users' = 0 /\ page_count' = 0
    /\ params_token' = Absent /\ attempt' = 0 /\ status' = 0 /\ headers' = NoHeaders
    /\ cd' = 0 /\ data' = NoPage
    /\ first_req' = NoReq /\ call_reqs' = 0 /\ not_before' = 0
    /\ stop_where' = "none" /\ stop_saves' = 0 /\ stop_sleeps' = 0
    /\ likers_before' = likers /\ start_state' = state
    /\ UNCHANGED <<db_vars, env_vars, io_vars, run_no>>

\* The next process is started on the same database (main, __init__).
Restart ==
    /\ pc \in {"exited", "crashed"}
    /\ run_no < MaxRuns
    /\ run_no' = run_no + 1
    /\ FreshProcess
    /\ likers_before' = likers /\ start_state' = state
    /\ UNCHANGED <<db_vars, env_vars, io_vars>>

Next ==
    \/ run_get_state
    \/ run_already_done
    \/ run_loop
    \/ fetch_page_exhausted
    \/ fetch_page_request
    \/ pace_requests
    \/ pace_wait_check
    \/ pace_wait_sleep
    \/ fetch_page_dispatch
    \/ rate_limit_check
    \/ rate_limit_sleep
    \/ backoff_sleep
    \/ run_process_page
    \/ run_save_state
    \/ run_polite
    \/ run_failed
    \/ run_final_export
    \/ handle_stop
    \/ Crash
    \/ Restart

Spec == Init /\ [][Next]_vars

\* periodic_export: the daemon thread wakes from its sleep while the process
\* runs, finds stop_flag unset and exports over a connection of its own.
periodic_export ==
    /\ EXPORT_MODE = "periodic"
    /\ pc \in RunningPcs
    /\ ~stop_flag
    /\ export_csv_with_connection(FALSE)
    /\ UNCHANGED <<env_vars, io_vars, stop_flag, run_no, pc, run_locals, fetch_locals, data, observers>>

NextPeriodic ==
    \/ Next
    \/ periodic_export

SpecPeriodic == InitPeriodic /\ [][NextPeriodic]_vars

\* ------------------------------------------- one run, every step returning
\* One process on a new database, the endless listing among the remotes.
InitLive == InitIn({"final"}, {"A", "C", "L"})

\* run_loop, with the number of iterations the model follows capped at
\* MaxPages (the production ceiling of 999999 pages is out of reach).
run_loop_capped ==
    /\ loop_continues => page_count < MaxPages
    /\ run_loop

\* The steps of the main thread from get_state to the return of run().
MainFlow ==
    \/ run_get_state
    \/ run_loop_capped
    \/ fetch_page_exhausted
    \/ fetch_page_request
    \/ pace_requests
    \/ pace_wait_check
    \/ pace_wait_sleep
    \/ fetch_page_dispatch
    \/ rate_limit_check
    \/ rate_limit_sleep
    \/ backoff_sleep
    \/ run_process_page
    \/ run_save_state
    \/ run_polite
    \/ run_failed
    \/ run_final_export

NextLive ==
    \/ MainFlow
    \/ handle_stop

\* Every sleep and every network call returns: the main thread keeps taking
\* steps while it has one to take. The signal may or may not arrive.
SpecLive == InitLive /\ [][NextLive]_vars /\ WF_vars(MainFlow)

\* ------------------- the main thread and the export thread, statement by statement
\* One process in periodic export mode on a new database.
InitThreads == InitIn({"periodic"}, {"A", "B"})

\* The process runs: the daemon thread lives as long as the main thread.
ThreadPcs == RunningPcs \cup {"insert", "exporting"}

\* export_csv_with_connection, lines 353-354: the name of the snapshot file.
csv_path == IF EXPORT_MODE = "final" THEN <<"epoch", time_time>> ELSE <<"current", 0>>

\* The bug of a reader that sees the rows of a transaction still open.
read_uncommitted(committed, pending) == committed \cup pending

\* What a SELECT on another connection reads while self.conn has a
\* transaction open (journal_mode=WAL): the committed rows.
visible_to_reader(committed, pending) == committed

\* A buffered writer opened with mode "w" is closed: its rows go to the
\* start of the file, over what another writer has left there.
Overlay(old, rows) == rows \o SubSeq(old, Len(rows) + 1, Len(old))

OpenBy(who) == {f \in open_files : f.by = who}

\* run(), lines 439-441, and insert_users, line 180: `with self.conn:`
insert_begin ==
    /\ pc = "process"
    /\ likers_before' = likers
    /\ IF data.data # <<>>
       THEN /\ txn' = [rows |-> {}, todo |-> data.data]
            /\ pc' = "insert"
            /\ UNCHANGED <<next_token, done>>
       ELSE /\ next_token' = data.next_token
            /\ done' = is_done(data.next_token)
            /\ pc' = "save"
            /\ UNCHANGED txn
    /\ UNCHANGED <<db_vars, env_vars, open_files, stop_flag, run_no, total_users, page_count,
                   fetch_locals, data, start_state, first_req, call_reqs, not_before,
                   stop_where, stop_saves, stop_sleeps>>

\* insert_users, lines 181-202: one INSERT OR IGNORE inside the transaction.
insert_row ==
    /\ pc = "insert"
    /\ txn.todo # <<>>
    /\ txn' = [rows |-> InsertOrIgnore(likers \cup txn.rows,
                                       LikerRow(TWEET_ID, Head(txn.todo))) \ likers,
               todo |-> Tail(txn.todo)]
    /\ UNCHANGED <<db_vars, env_vars, open_files, stop_flag, run_no, pc, run_locals,
                   fetch_locals, data, observers>>

\* insert_users: the commit at the end of the with block; run(), lines 442-450.
insert_commit ==
    /\ pc = "insert"
    /\ txn.todo = <<>>
    /\ likers' = likers \cup txn.rows
    /\ txn' = NoTxn
    /\ total_users' = count_after(total_users, data.data)
    /\ next_token' = data.next_token
    /\ done' = is_done(data.next_token)
    /\ pc' = "save"
    /\ UNCHANGED <<state, csv, env_vars, open_files, stop_flag, run_no, page_count,
                   fetch_locals, data, observers>>

\* run(), lines 475-486, and export_csv_with_connection, lines 357-364: the
\* SELECT on self.conn and open(csv_path, "w"), which empties the file.
main_export_open ==
    /\ pc = "final"
    /\ IF EXPORT_MODE \in {"final", "periodic"} /\ count_rows(likers, TWEET_ID) > 0
       THEN /\ open_files' = open_files \cup
                   {[by |-> "main", name |-> csv_path, rows |-> select_likers(likers, TWEET_ID)]}
            /\ csv' = <<>>
            /\ pc' = "exporting"
       ELSE /\ pc' = "exited"
            /\ UNCHANGED <<csv, open_files>>
    /\ UNCHANGED <<likers, state, env_vars, txn, stop_flag, run_no, run_locals,
                   fetch_locals, data, observers>>

\* export_csv_with_connection, lines 364-376: the rows are written, the file
\* is closed, update_export_time on the primary connection.
main_export_close ==
    /\ pc = "exporting"
    /\ \E f \in OpenBy("main") :
          /\ csv' = Overlay(csv, f.rows)
          /\ open_files' = open_files \ {f}
    /\ state' = IF marks_exported(TRUE)
                THEN update_export_time(state, TWEET_ID, time_time) ELSE state
    /\ pc' = "exited"
    /\ UNCHANGED <<likers, env_vars, txn, stop_flag, run_no, run_locals,
                   fetch_locals, data, observers>>

\* periodic_export, lines 382-388, and export_csv_with_connection, lines
\* 357-364: the thread wakes, finds stop_flag unset, SELECTs on its own
\* connection and opens the file.
thread_export_open ==
    /\ EXPORT_MODE = "periodic"
    /\ pc \in ThreadPcs
    /\ ~stop_flag
    /\ OpenBy("thread") = {}
    /\ open_files' = open_files \cup
           {[by |-> "thread", name |-> csv_path,
             rows |-> select_likers(visible_to_reader(likers, txn.rows), TWEET_ID)]}
    /\ csv' = <<>>
    /\ UNCHANGED <<likers, state, env_vars, txn, stop_flag, run_no, pc, run_locals,
                   fetch_locals, data, observers>>

\* export_csv_with_connection, lines 364-376, in the thread: the rows are
\* written and the file is closed; conn is not self.conn.
thread_export_close ==
    /\ pc \in ThreadPcs
    /\ \E f \in OpenBy("thread") :
          /\ csv' = Overlay(csv, f.rows)
          /\ open_files' = open_files \ {f}
    /\ state' = IF marks_exported(FALSE)
                THEN update_export_time(state, TWEET_ID, time_time) ELSE state
    /\ UNCHANGED <<likers, env_vars, txn, stop_flag, run_no, pc, run_locals,
                   fetch_locals, data, observers>>

\* handle_stop while the main thread is inside insert_users or export_csv.
handle_stop_io ==
    /\ pc \in {"insert", "exporting"}
    /\ ~stop_flag
    /\ stop_flag' = TRUE
    /\ stop_where' = "other"
    /\ UNCHANGED <<db_vars, env_vars, io_vars, run_no, pc, run_locals, fetch_locals, data,
                   likers_before, start_state, first_req, call_reqs, not_before,
                   stop_saves, stop_sleeps>>

NextThreads ==
    \/ run_get_state
    \/ run_loop
    \/ fetch_page_exhausted
    \/ fetch_page_request
    \/ pace_requests
    \/ pace_wait_check
    \/ pace_wait_sleep
    \/ fetch_page_dispatch
    \/ rate_limit_check
    \/ rate_limit_sleep
    \/ backoff_sleep
    \/ insert_begin
    \/ insert_row
    \/ insert_commit
    \/ run_save_state
    \/ run_polite
    \/ run_failed
    \/ main_export_open
    \/ main_export_close
    \/ thread_export_open
    \/ thread_export_close
    \/ handle_stop
    \/ handle_stop_io

SpecThreads == InitThreads /\ [][NextThreads]_vars

\* ------------------------------------------------ insert_users on its own
\* The user objects of a page: with and without id, username and verified.
UserDomain ==
    {User(id, f[1], f[2]) : id \in 0..2, f \in {<<None, "absent">>, <<"u1", "true">>, <<"u2", "false">>}}

RECURSIVE SeqsUpTo(_, _)
SeqsUpTo(S, n) ==
    IF n = 0 THEN {<<>>}
    ELSE LET shorter == SeqsUpTo(S, n - 1)
         IN shorter \cup {Append(q, x) : q \in {r \in shorter : Len(r) = n - 1}, x \in S}

UniqueKeys(tbl) ==
    \A r, q \in tbl : (r.tweet_id = q.tweet_id /\ r.user_id = q.user_id) => r = q

\* The contents the likers table can have: rows of two targets, unique keys.
StoreDomain ==
    {tbl \in SUBSET ({LikerRow(TWEET_ID, u) : u \in {x \in UserDomain : x.id # 0}}
                      \cup {LikerRow(OTHER_TWEET, u) : u \in {x \in UserDomain : x.id = 1}}) :
        UniqueKeys(tbl)}

InitInsert ==
    /\ likers \in StoreDomain
    /\ data \in {Page(users, None) : users \in SeqsUpTo(UserDomain, MaxLen)}
    /\ likers_before = likers
    /\ pc = "ins0"
    /\ state = {} /\ csv = <<>>
    /\ remote = "A" /\ QUICK_TEST = FALSE /\ EXPORT_MODE = "final"
    /\ stop_flag = FALSE /\ run_no = 1
    /\ next_token = None /\ done = FALSE /\ total_users = 0 /\ page_count = 0
    /\ params_token = Absent /\ attempt = 0 /\ status = 0 /\ headers = NoHeaders
    /\ cd = 0 /\ start_state = {}
    /\ first_req = NoReq /\ call_reqs = 0 /\ not_before = 0
    /\ stop_where = "none" /\ stop_saves = 0 /\ stop_sleeps = 0
    /\ txn = NoTxn /\ open_files = {}

\* insert_users(tweet_id, users) on the store, and the same call once more.
insert_once ==
    /\ pc = "ins0"
    /\ likers' = insert_users(likers, TWEET_ID, data.data)
    /\ pc' = "ins1"
    /\ UNCHANGED <<state, csv, env_vars, io_vars, stop_flag, run_no, run_locals, fetch_locals, data,
                   observers>>

insert_again ==
    /\ pc = "ins1"
    /\ likers' = insert_users(likers, TWEET_ID, data.data)
    /\ pc' = "ins2"
    /\ UNCHANGED <<state, csv, env_vars, io_vars, stop_flag, run_no, run_locals, fetch_locals, data,
                   observers>>

\* export_csv on the store so filled, and the same export once more.
export_once ==
    /\ pc = "ins2"
    /\ export_csv
    /\ pc' = "exp1"
    /\ UNCHANGED <<env_vars, io_vars, stop_flag, run_no, run_locals, fetch_locals, data, observers>>

export_again ==
    /\ pc = "exp1"
    /\ export_csv
    /\ pc' = "exp2"
    /\ UNCHANGED <<env_vars, io_vars, stop_flag, run_no, run_locals, fetch_locals, data, observers>>

NextInsert ==
    \/ insert_once
    \/ insert_again
    \/ export_once
    \/ export_again

SpecInsert == InitInsert /\ [][NextInsert]_vars

\* ------------------------------------------------------------------ claims
KeyIn(tbl, tweet_id, id) == \E r \in tbl : r.tweet_id = tweet_id /\ r.user_id = id

\* Ids of the list that insert_users has to add: not NULL, not yet stored.
NewIds(tbl, tweet_id, users) ==
    {users[i].id : i \in 1..Len(users)} \ ({0} \cup {r.user_id : r \in {q \in tbl : q.tweet_id = tweet_id}})

\* C1: insert_users keeps every stored row as it is, also when the list
\* carries the same key with other field values, adds exactly one row per
\* new id, changes nothing when every key of the list is already stored, and
\* applied twice with the same list gives the store that one application gives.
C1_IdempotentIngestion ==
    pc \in {"ins1", "ins2"} =>
        /\ likers_before \subseteq likers
        /\ UniqueKeys(likers)
        /\ Cardinality(likers) =
               Cardinality(likers_before) + Cardinality(NewIds(likers_before, TWEET_ID, data.data))
        /\ (NewIds(likers_before, TWEET_ID, data.data) = {}) => likers = likers_before
        /\ (pc = "ins2") => likers = insert_users(likers_before, TWEET_ID, data.data)

\* A list that repeats a stored key with other field values and also
\* carries a new id, ingested twice.
C1_Witness ==
    /\ pc = "ins2"
    /\ \E i \in 1..Len(data.data) :
          /\ KeyIn(likers_before, TWEET_ID, data.data[i].id)
          /\ LikerRow(TWEET_ID, data.data[i]) \notin likers_before
    /\ NewIds(likers_before, TWEET_ID, data.data) # {}

\* The cursor, done flag and record count of the target's checkpoint row.
Core(tbl) ==
    LET row == StateRow(tbl, TWEET_ID)
    IN [next_token |-> row.next_token, done |-> row.done, total |-> row.total_users_found]

\* C2: when run() starts on a checkpoint (next_token = C, done = false), the
\* first request of that run carries pagination token C, and none when C is
\* absent.
C2_CheckpointResumability ==
    (first_req # NoReq /\ HasState(start_state, TWEET_ID) /\ ~Core(start_state).done) =>
        first_req = (IF Core(start_state).next_token = None THEN Absent
                     ELSE Core(start_state).next_token)

\* A later process resumes in the middle of the listing.
C2_Witness ==
    /\ run_no > 1
    /\ HasState(start_state, TWEET_ID)
    /\ Core(start_state).next_token \in {"X", "Y", "Z"}
    /\ first_req = Core(start_state).next_token

RECURSIVE PagesBefore(_, _, _)
\* The cursors of the pages the loop has passed when its cursor is `upto`,
\* walking the listing from cursor `from`.
PagesBefore(name, from, upto) ==
    IF from = upto THEN {}
    ELSE LET nxt == Remote(name)[from].next_token
         IN {from} \cup (IF Truthy(nxt) THEN PagesBefore(name, nxt, upto) ELSE {})

\* The pages a checkpoint row declares collected.
CommittedPages(name, core) ==
    IF core.done THEN PagesBefore(name, None, Absent)
    ELSE PagesBefore(name, None, core.next_token)

\* C3: every record of every page that the persisted checkpoint declares
\* collected is in the likers table, the table never loses or changes a row,
\* whatever crashes and restarts happen, and it never holds two rows of one key.
C3_CrashSafety ==
    /\ [](HasState(state, TWEET_ID) =>
             \A t \in CommittedPages(remote, Core(state)) :
                 \A i \in 1..Len(Remote(remote)[t].data) :
                     KeyIn(likers, TWEET_ID, Remote(remote)[t].data[i].id))
    /\ [](UniqueKeys(likers))
    /\ [][likers \subseteq likers']_vars

\* The first process was killed between insert_users and save_state; the
\* second one fetched the same page again and ingested it without any change.
C3_Witness ==
    /\ run_no = 2
    /\ pc = "save"
    /\ Core(state).next_token = None /\ ~Core(state).done
    /\ likers_before # {}
    /\ likers = likers_before
    /\ data.data # <<>>

\* C4: no session.get starts while stop_flag is set.
C4_NoRequestAfterStop == [][(call_reqs' = call_reqs + 1) => ~stop_flag]_vars

\* C5: outside quick-test mode, after a response with remaining = 0 and
\* reset = T the next request does not start before T + 2.
C5_RateLimitWait == [][(call_reqs' = call_reqs + 1 /\ ~QUICK_TEST) => not_before = 0]_vars

\* C6: after the stop flag is set inside a countdown, at most one more
\* 1-second sleep of a countdown begins, and when the process exits
\* save_state has been called exactly once since, with the values the loop
\* holds.
C6_StopResponsiveness ==
    stop_where = "countdown" =>
        /\ stop_sleeps <= 1
        /\ stop_saves <= 1
        /\ (pc = "exited") =>
              /\ stop_saves = 1
              /\ Core(state) = [next_token |-> next_token, done |-> done, total |-> total_users]

\* The flag arrived between the stop test and the sleep of a countdown.
C6_Witness ==
    /\ pc = "exited"
    /\ stop_where = "countdown"
    /\ stop_sleeps = 1
    /\ stop_saves = 1

\* C7: a run that starts on a checkpoint with done = true issues no request
\* and leaves the cursor, the done flag, the record count and the likers
\* table as they were.
C7_CompletionIsFinal ==
    (pc \in RunningPcs \cup {"exited"} /\ HasState(start_state, TWEET_ID) /\ Core(start_state).done) =>
        /\ first_req = NoReq
        /\ pc \in {"start", "already_done", "exited"}
        /\ Core(state) = Core(start_state)
        /\ likers = likers_before

\* A later process found the target complete, exported and returned.
C7_Witness ==
    /\ run_no > 1
    /\ pc = "exited"
    /\ HasState(start_state, TWEET_ID)
    /\ Core(start_state).done
    /\ StateRow(state, TWEET_ID).last_export_time = run_no

\* C8: one fetch_page call issues at most 7 requests, and it returns a page
\* only for a response with status 200, the page the remote served.
C8_AttemptCeiling ==
    /\ call_reqs <= MaxAttempts
    /\ (pc = "process") => (status = 200 /\ data = Serve(remote, params_token))
    /\ (pc = "failed") => status # 200

\* Seven attempts, none answered by 200: the call returned None.
C8_Witness ==
    /\ pc = "failed"
    /\ call_reqs = MaxAttempts
    /\ attempt = MaxAttempts
    /\ status # 200

NonRetryable(st) == st \in Statuses /\ st # 200 /\ st # 429 /\ ~(500 <= st /\ st < 600)

\* C9: after a response whose status is neither 200, 429 nor 5xx the call
\* only finishes pace_requests and returns None: it reaches no further
\* request, backoff or 429 countdown, and returns no page.
C9_NonRetryable ==
    NonRetryable(status) =>
        pc \in {"pace", "pace_check", "pace_sleep", "dispatch", "failed", "final", "exited"}

\* A 404 on a later attempt ended the call.
C9_Witness ==
    /\ pc = "failed"
    /\ status = 404
    /\ attempt > 0
    /\ call_reqs < MaxAttempts

\* C10: when fetch_page returns None the loop writes a checkpoint equal in
\* cursor, done flag (false) and count to the one persisted before the call,
\* the likers table is not touched from the call to the end of the run, no
\* request follows, and the flow goes on to the final export.
C10_FailurePreservesCheckpoint ==
    /\ []((pc \in FetchPcs \cup {"failed"}) =>
             Core(state) = [next_token |-> next_token, done |-> FALSE, total |-> total_users])
    /\ [][(pc = "failed" /\ pc' \notin {"failed", "crashed"}) =>
             /\ pc' = "final"
             /\ Core(state') = Core(state)
             /\ ~Core(state').done
             /\ likers' = likers
             /\ call_reqs' = call_reqs]_vars
    /\ [][(pc = "final" /\ pc' \notin {"final", "crashed"}) =>
             /\ pc' = "exited"
             /\ Core(state') = Core(state)
             /\ call_reqs' = call_reqs]_vars

\* The second page could not be fetched: the checkpoint still points at it.
C10_Witness ==
    /\ pc = "final"
    /\ status = 404
    /\ page_count = 2
    /\ Core(state).next_token = "X"
    /\ ~Core(state).done

RECURSIVE ServedFrom(_, _)
\* The records the remote serves from cursor t to the end of the listing,
\* page after page.
ServedFrom(name, t) ==
    LET page == Remote(name)[t]
    IN page.data \o (IF Truthy(page.next_token) THEN ServedFrom(name, page.next_token) ELSE <<>>)

\* The cursor a run starts from.
StartCursor == IF HasState(start_state, TWEET_ID) THEN Core(start_state).next_token ELSE None

\* The pages a run has to fetch to reach the end of the listing.
PagesToFetch == Cardinality(PagesBefore(remote, StartCursor, Absent))

\* The store holds one row per id served, with the fields of the first
\* record served under that id.
HoldsExactly(tbl, served) ==
    /\ UniqueKeys(tbl)
    /\ \A r \in tbl : r.tweet_id = TWEET_ID
    /\ {r.user_id : r \in tbl} = {served[i].id : i \in 1..Len(served)}
    /\ \A i \in 1..Len(served) :
          (\A j \in 1..(i - 1) : served[j].id # served[i].id) => LikerRow(TWEET_ID, served[i]) \in tbl

\* A snapshot with one row per stored record of the target, ascending by id.
IsOrderedExportOf(rows, tbl) ==
    /\ {rows[i] : i \in 1..Len(rows)} = {r \in tbl : r.tweet_id = TWEET_ID}
    /\ \A i \in 1..Len(rows), j \in 1..Len(rows) : i < j => rows[i].user_id < rows[j].user_id

\* The run left the loop after a fetched page, never stopped.
RunWithoutFailureOrStop == pc = "exited" /\ ~stop_flag /\ status = 200

EndToEndResult ==
    /\ done /\ Core(state).done
    /\ Core(state).total = Len(ServedFrom(remote, None))
    /\ HoldsExactly(likers, ServedFrom(remote, None))

\* C11 as stated: every run without failure or stop ends with done = true,
\* the count of the records served, the store holding them, and (where
\* EXPORT_MODE asks for the export) a snapshot of one row per stored record
\* in ascending order.
C11_EndToEndAsStated ==
    RunWithoutFailureOrStop =>
        /\ EndToEndResult
        /\ (EXPORT_MODE = "final") => IsOrderedExportOf(csv, likers)

\* C11: a run without failure or stop that the quick-test page ceiling does
\* not cut short ends with done = true, record_count equal to the number of
\* records served, the store holding one record per id served; with
\* EXPORT_MODE final the snapshot holds one row per stored record, ascending.
C11_EndToEnd ==
    (RunWithoutFailureOrStop /\ (~QUICK_TEST \/ PagesToFetch <= QuickMaxPages)) =>
        /\ EndToEndResult
        /\ (EXPORT_MODE = "final") => IsOrderedExportOf(csv, likers)

\* The scenario of the specification: pages (a, b) and (c), three rows a, b, c.
C11_Witness ==
    /\ RunWithoutFailureOrStop
    /\ remote = "A" /\ EXPORT_MODE = "final" /\ run_no = 1
    /\ Core(state).total = 3
    /\ Len(csv) = 3
    /\ csv[1].user_id = 1 /\ csv[2].user_id = 2 /\ csv[3].user_id = 3

\* C12: an export holds exactly one row per stored record of the target in
\* ascending record-id order, whatever the order of ingestion (so the store
\* alone determines the rows), and a second export of the unchanged store
\* writes the same rows.
C12_DeterministicExport ==
    /\ []((pc \in {"exp1", "exp2"}) => IsOrderedExportOf(csv, likers))
    /\ [][(pc = "exp1" /\ pc' = "exp2") => (likers' = likers /\ csv' = csv)]_vars

\* Two records ingested in descending id order next to a row of another
\* target, exported twice.
C12_Witness ==
    /\ pc = "exp2"
    /\ Len(data.data) = 2
    /\ data.data[1].id > data.data[2].id /\ data.data[2].id > 0
    /\ \A r \in likers_before : r.tweet_id = OTHER_TWEET
    /\ likers_before # {}
    /\ Len(csv) = 2

\* A step that writes a snapshot on the primary connection: it stamps the
\* checkpoint's last_export_time with the time of the run.
SnapshotWritten ==
    /\ HasState(state', TWEET_ID)
    /\ StateRow(state', TWEET_ID).last_export_time = run_no
    /\ (HasState(state, TWEET_ID) => StateRow(state, TWEET_ID).last_export_time # run_no)

\* C13: in final export mode a snapshot is written only by the step that ends
\* the run (so at most once, after the loop has halted or was never entered),
\* and only when the record store holds at least one record of the target; a
\* run that ends with no record of the target, one that starts on a done
\* checkpoint included, writes none.
C13_FinalExportGuard ==
    [][(EXPORT_MODE = "final" /\ SnapshotWritten) =>
          /\ pc \in {"final", "already_done"}
          /\ pc' = "exited"
          /\ count_rows(likers, TWEET_ID) > 0]_vars

\* A step that writes a snapshot file with new content, or stamps one.
ExportStep == csv' # csv \/ SnapshotWritten

WithoutExportTime(tbl) == {[r EXCEPT !.last_export_time = 0] : r \in tbl}

\* C14: an export changes neither the record store nor any checkpoint column
\* but last_export_time, and an export by the periodic thread (the main
\* thread does not move) leaves the checkpoint table as it is,
\* last_export_time included.
C14_ExporterFrame ==
    [][/\ ExportStep =>
            (likers' = likers /\ WithoutExportTime(state') = WithoutExportTime(state))
       /\ (csv' # csv /\ pc' = pc) => state' = state]_vars

\* The periodic thread has exported two records in the middle of the first
\* run: no export was stamped on the checkpoint.
C14_Witness ==
    /\ EXPORT_MODE = "periodic"
    /\ run_no = 1
    /\ pc = "request"
    /\ Len(csv) = 2
    /\ HasState(state, TWEET_ID)
    /\ StateRow(state, TWEET_ID).last_export_time = 0
    /\ Core(state).total = 2

\* The listing has a page without next_token.
ListingEnds(name) ==
    \E t \in DOMAIN Remote(name) : ~Truthy(Remote(name)[t].next_token)

InLoop == RunningPcs \ {"already_done", "final"}

\* C15: when every step returns, a run whose listing ends, or whose page
\* ceiling is the quick-test one, or whose stop flag is set, leaves the
\* loop; and once the stop flag is set no further loop iteration (no further
\* fetch_page call) starts.
C15_LoopTermination ==
    /\ (pc \in InLoop /\ (ListingEnds(remote) \/ QUICK_TEST \/ stop_flag))
          ~> (pc \in {"final", "exited"})
    /\ [][stop_flag => page_count' = page_count]_vars

\* The endless listing in production mode, halted by the stop flag after
\* several pages.
C15_Witness ==
    /\ pc = "final"
    /\ remote = "L" /\ ~QUICK_TEST
    /\ stop_flag
    /\ page_count > QuickMaxPages
    /\ ~done

\* The loop's checkpoint as run() holds it in memory.
InMemory == [next_token |-> next_token, done |-> done, total |-> total_users]

\* C16: when run() has left the collection loop, by done, by the stop flag,
\* by a fetch failure or by the page ceiling, the stored cursor, done flag and
\* record count are the loop's next_token, done and total_users.
C16_CheckpointFlushed ==
    (pc = "final") => (HasState(state, TWEET_ID) /\ Core(state) = InMemory)

\* The loop left at the quick-test page ceiling with records counted and a
\* cursor pending.
C16_Witness ==
    /\ pc = "final"
    /\ QUICK_TEST /\ page_count = QuickMaxPages
    /\ ~done /\ ~stop_flag /\ status = 200
    /\ total_users > 0
    /\ next_token = "Z"

\* Every record of the page with an id is stored for the target.
PageIngested(page) ==
    \A i \in 1..Len(page.data) :
        page.data[i].id # 0 => KeyIn(likers, TWEET_ID, page.data[i].id)

\* C17: once a fetched page is saved, the stored cursor is the page's next
\* token and the stored done flag is true exactly when that token is absent
\* or empty, with or without records on the page; the page's records are
\* stored by then; and whenever the next request may be issued the stored
\* checkpoint is the loop's current one.
C17_PerPageCheckpoint ==
    /\ (pc = "polite") =>
          /\ Core(state).next_token = data.next_token
          /\ Core(state).done = (data.next_token \in {None, ""})
          /\ PageIngested(data)
    /\ (pc \in FetchPcs) => Core(state) = InMemory

\* A page without records was saved: the cursor moved from "X" to "Y".
C17_Witness ==
    /\ pc = "polite"
    /\ data.data = <<>>
    /\ params_token = "X"
    /\ Core(state).next_token = "Y"
    /\ ~Core(state).done

\* fetch_page reads a 429 response whose x-rate-limit-reset is non-zero.
RateLimitedWithReset == pc = "dispatch" /\ status = 429 /\ headers.has_reset

\* The main thread takes a step of the program (it is not killed).
MainMoves == pc' # pc /\ pc' # "crashed"

\* What the 429 branch does apart from the length of its countdown: without
\* a reset time it goes to the exponential backoff; the countdown sleeps no
\* more and does not retry once the stop flag is seen; it retries only when
\* the countdown has run out; a retry takes the next attempt; and with the 7
\* attempts used the call ends with the failure signal.
RateLimitRetries ==
    /\ (pc = "dispatch" /\ status = 429 /\ ~headers.has_reset /\ MainMoves)
          => pc' = "backoff"
    /\ (RateLimitedWithReset /\ MainMoves) => pc' = "rl_check"
    /\ (pc = "rl_check" /\ stop_flag) => pc' \notin {"rl_sleep", "request"}
    /\ (pc = "rl_check" /\ pc' = "request") => cd = 0
    /\ (pc \in {"rl_check", "backoff"} /\ status = 429 /\ pc' = "request")
          => attempt' = attempt + 1
    /\ (pc = "request" /\ status = 429 /\ attempt = MaxAttempts /\ MainMoves)
          => pc' = "failed"

\* C18 as stated: the countdown after a 429 with a reset time lasts at least
\* reset - now + 2 seconds and at least 5.
C18_RateLimitHandlingAsStated ==
    [][/\ (RateLimitedWithReset /\ pc' = "rl_check")
             => cd' >= Max(MinDelay, headers.reset_in + Buffer)
       /\ RateLimitRetries]_vars

\* C18: the countdown after a 429 with a reset time lasts at least
\* reset - now + 2 seconds and at least 5 outside quick-test mode, and 5
\* seconds in quick-test mode; the rest as stated.
C18_RateLimitHandling ==
    [][/\ (RateLimitedWithReset /\ pc' = "rl_check")
             => IF QUICK_TEST THEN cd' = MinDelay
                ELSE cd' >= Max(MinDelay, headers.reset_in + Buffer)
       /\ RateLimitRetries]_vars

\* A countdown longer than the 5-second floor runs after a 429.
C18_Witness ==
    /\ pc = "rl_check"
    /\ status = 429
    /\ ~QUICK_TEST
    /\ cd = MaxReset + Buffer
    /\ cd > MinDelay

\* C19: after every save_state (the one after a page and the one after a
\* failed fetch) the stored record count is the number of rows of the target
\* in the likers table.
C19_CountAgreesWithStore ==
    [][(pc \in {"save", "failed"} /\ pc' \in {"polite", "final"})
          => Core(state').total = count_rows(likers', TWEET_ID)]_vars

\* C20: in every step, of a run or a crash or a restart, a stored done flag
\* that is true stays true, the stored record count does not decrease, the
\* checkpoint row stays, and no stored record is lost.
C20_CheckpointMonotonic ==
    [][/\ likers \subseteq likers'
       /\ HasState(state, TWEET_ID) =>
             /\ HasState(state', TWEET_ID)
             /\ Core(state).done => Core(state').done
             /\ Core(state').total >= Core(state).total]_vars

\* A second run, started on a checkpoint with records counted, has saved
\* its checkpoint after a fetch failure.
C20_Witness ==
    /\ run_no = 2
    /\ pc = "final"
    /\ status = 404
    /\ HasState(start_state, TWEET_ID)
    /\ Core(start_state).total > 0
    /\ Core(state).total = Core(start_state).total
    /\ likers # {}

\* C21: at no time are two snapshot files of one name open for writing.
C21_NoConcurrentWriters ==
    \A f, g \in open_files : (f.name = g.name) => (f = g)

\* The ids a page of the listing serves, and those among them that no
\* earlier page of the listing has served: the records the page adds.
PageIdSet(name, t) ==
    {Remote(name)[t].data[i].id : i \in 1..Len(Remote(name)[t].data)} \ {0}

AddedBy(name, t) ==
    PageIdSet(name, t) \ UNION {PageIdSet(name, u) : u \in PagesBefore(name, None, t)}

SnapshotIds(rows) == {rows[i].user_id : i \in 1..Len(rows)}

PageAtomic(name, ids) ==
    \A t \in DOMAIN Remote(name) :
        AddedBy(name, t) \subseteq ids \/ AddedBy(name, t) \cap ids = {}

\* C22: whatever the interleaving of insert_users and the exports, the rows
\* an export writes hold, of every page, all the records the page adds to the
\* store or none of them, and no row that is not committed.
C22_PageAtomicSnapshots ==
    \A f \in open_files :
        /\ PageAtomic(remote, SnapshotIds(f.rows))
        /\ \A i \in 1..Len(f.rows) : f.rows[i] \in likers

\* The thread writes a snapshot of the first page's two records while the
\* transaction of a later page holds a row not yet committed.
C22_Witness ==
    /\ pc = "insert"
    /\ txn.rows # {}
    /\ count_rows(likers, TWEET_ID) = 2
    /\ \E f \in OpenBy("thread") : Len(f.rows) = 2

====
